---- MODULE Spec2Model ----
(***************************************************************************)
(* LogForge: the in-memory log API of src/src/api.js.                      *)
(*                                                                         *)
(* The store is the module-level array receivedLogs and the object stats.  *)
(* Every Express handler of api.js is synchronous, so on Node's event loop *)
(* a handler runs to completion before the next one starts: Spec has one   *)
(* action per handler.  SpecSteps runs the same handlers one statement at  *)
(* a time under the event loop's dispatch rule.                            *)
(*                                                                         *)
(* JavaScript values are tagged records: [t |-> "string", v |-> "info"] is *)
(* the string 'info', [t |-> "number", v |-> 3] the number 3.  A document  *)
(* (a parsed JSON body, a stored record) is a function from its own field  *)
(* names to values; a field the document lacks is outside its DOMAIN.      *)
(*                                                                         *)
(* SpecGenerator adds the generator of src/src/generator/generator.js,     *)
(* which posts a document to POST /logs on every tick of its timer.        *)
(***************************************************************************)
EXTENDS Integers, Sequences, FiniteSets, TLC

VARIABLES
  receivedLogs,  \* api.js:51   the stored records, newest first
  stats,         \* api.js:55   totalReceived, byLevel, lastReceived
  now,           \* the wall clock read by new Date(), in ms
  res,           \* the response sent by the last handler that ran
  history,       \* history: what was admitted since the last clear (see Admitted)
  nPosts,        \* history: accepted POST /logs since Init (bounds the run)
  running,       \* the handler on the call stack and the statement it is at
  generator,     \* generator.js: the generator process and its pending posts
  apiUp          \* whether a request of the generator reaches the API

vars == <<receivedLogs, stats, now, res, history, nPosts, running, generator, apiUp>>

\* ------------------------------------------------------------------------
\* Program constants
\* ------------------------------------------------------------------------
MaxLogs == 1000       \* receivedLogs.splice(1000)
DefaultLimit == 50    \* limit = 50
DefaultOffset == 0    \* offset = 0
MaxResults == 100     \* results.slice(0, 100)

\* ------------------------------------------------------------------------
\* Bounds of the model
\* ------------------------------------------------------------------------
MaxPosts == 2         \* accepted POST /logs per run

\* ------------------------------------------------------------------------
\* JavaScript values
\* ------------------------------------------------------------------------
Undefined == [t |-> "undefined"]
Null == [t |-> "null"]
Str(s) == [t |-> "string", v |-> s]
Num(n) == [t |-> "number", v |-> n]
Fn(name) == [t |-> "function", v |-> name]
NaN == [t |-> "NaN"]     \* the number NaN

\* ToBoolean: what `!x` and `x || y` test.
Truthy(x) ==
  CASE x.t = "undefined" -> FALSE
    [] x.t = "null" -> FALSE
    [] x.t = "string" -> x.v # ""
    [] x.t = "number" -> x.v # 0
    [] x.t = "NaN" -> FALSE
    [] OTHER -> TRUE

\* log.level, log.message, ...: an own field or undefined.
Field(doc, k) == IF k \in DOMAIN doc THEN doc[k] ELSE Undefined

\* The methods every object literal inherits from Object.prototype.
ObjectPrototypeMethods ==
  {"constructor", "hasOwnProperty", "isPrototypeOf", "propertyIsEnumerable",
   "toLocaleString", "toString", "valueOf"}

\* obj[k] on an object literal: an own property, else an inherited method,
\* else undefined.
GetProperty(obj, k) ==
  IF k \in DOMAIN obj THEN obj[k]
  ELSE IF k \in ObjectPrototypeMethods THEN Fn(k)
  ELSE Undefined

\* obj[k] = x
SetProperty(obj, k, x) ==
  [j \in DOMAIN obj \cup {k} |-> IF j = k THEN x ELSE obj[j]]

\* String(n) for a small non-negative integer, left-padded with zeros.
Pad(n, width) ==
  LET s == ToString(n)
  IN  IF Len(s) >= width THEN s
      ELSE IF width - Len(s) = 1 THEN "0" \o s
      ELSE "00" \o s

\* new Date().toISOString() for a clock value within the first minute of the
\* epoch: 1970-01-01T00:00:SS.mmmZ.
ToISOString(ms) ==
  Str("1970-01-01T00:00:" \o Pad(ms \div 1000, 2) \o "." \o Pad(ms % 1000, 3) \o "Z")

\* `rec_${Math.random().toString(36).substring(2, 9)}`: the id is a function
\* of the number Math.random() returns; draw names that outcome.
RandomId(draw) == Str("rec_" \o ToString(draw))

\* The characters of the strings that are parsed.
Spelling ==
  [s \in {"", "0", "1", "2", "50", "-1", "1000", "abc",
          "Pay", "PAY", "x", "pay", "ay", "z"} |->
     CASE s = "" -> <<>>
       [] s = "Pay" -> <<"P", "a", "y">>
       [] s = "PAY" -> <<"P", "A", "Y">>
       [] s = "x" -> <<"x">>
       [] s = "pay" -> <<"p", "a", "y">>
       [] s = "ay" -> <<"a", "y">>
       [] s = "z" -> <<"z">>
       [] s = "0" -> <<"0">>
       [] s = "1" -> <<"1">>
       [] s = "2" -> <<"2">>
       [] s = "50" -> <<"5", "0">>
       [] s = "-1" -> <<"-", "1">>
       [] s = "1000" -> <<"1", "0", "0", "0">>
       [] s = "abc" -> <<"a", "b", "c">>]

DigitValue ==
  [c \in {"0", "1", "2", "3", "4", "5", "6", "7", "8", "9"} |->
     CASE c = "0" -> 0 [] c = "1" -> 1 [] c = "2" -> 2 [] c = "3" -> 3
       [] c = "4" -> 4 [] c = "5" -> 5 [] c = "6" -> 6 [] c = "7" -> 7
       [] c = "8" -> 8 [] c = "9" -> 9]

\* The value of the digits of chars from position i on, up to the first
\* character that is no digit; acc is the value read so far.
RECURSIVE DigitsFrom(_, _, _)
DigitsFrom(chars, i, acc) ==
  IF i > Len(chars) \/ chars[i] \notin DOMAIN DigitValue THEN acc
  ELSE DigitsFrom(chars, i + 1, 10 * acc + DigitValue[chars[i]])

RECURSIVE SkipSpaces(_, _)
SkipSpaces(chars, i) ==
  IF i <= Len(chars) /\ chars[i] = " " THEN SkipSpaces(chars, i + 1) ELSE i

\* parseInt(x) in radix 10: leading white space, a sign, then digits up to
\* the first other character; NaN when there is no digit.  A number is
\* converted to its decimal string first, which parses back to itself.
ParseInt(x) ==
  IF x.t = "number" THEN x
  ELSE LET chars == Spelling[x.v]
           i == SkipSpaces(chars, 1)
           signed == i <= Len(chars) /\ chars[i] \in {"+", "-"}
           j == IF signed THEN i + 1 ELSE i
       IN  IF j > Len(chars) \/ chars[j] \notin DOMAIN DigitValue THEN NaN
           ELSE IF signed /\ chars[i] = "-" THEN Num(0 - DigitsFrom(chars, j, 0))
           ELSE Num(DigitsFrom(chars, j, 0))

\* a + b on numbers
Plus(a, b) == IF a.t = "NaN" \/ b.t = "NaN" THEN NaN ELSE Num(a.v + b.v)

\* a < n on numbers: false when a is NaN
LessThan(a, n) == a.t # "NaN" /\ a.v < n

\* How res.json writes a number: NaN becomes null.
JsonNumber(x) == IF x.t = "NaN" THEN Null ELSE x

\* The index array.slice turns a bound into: NaN counts as 0, a negative
\* bound counts from the end.
SliceIndex(x, len) ==
  LET k == IF x.t = "NaN" THEN 0 ELSE x.v
  IN  IF k < 0 THEN (IF len + k < 0 THEN 0 ELSE len + k)
      ELSE IF k > len THEN len ELSE k

\* Mutant: the element at index end is included.
SliceInclusive(arr, start, end) ==
  LET from == SliceIndex(start, Len(arr))
      to == SliceIndex(Plus(end, Num(1)), Len(arr))
  IN  IF to > from THEN SubSeq(arr, from + 1, to) ELSE <<>>

\* array.slice(start, end)
Slice(arr, start, end) ==
  LET from == SliceIndex(start, Len(arr))
      to == SliceIndex(end, Len(arr))
  IN  IF to > from THEN SubSeq(arr, from + 1, to) ELSE <<>>

\* ------------------------------------------------------------------------
\* The store
\* ------------------------------------------------------------------------
InitialByLevel ==
  [debug |-> Num(0), info |-> Num(0), warn |-> Num(0), error |-> Num(0)]

InitialStats ==
  [totalReceived |-> 0, byLevel |-> InitialByLevel, lastReceived |-> Null]

\* Mutant: the level buckets survive a clear.
ClearedStatsKeepsLevels ==
  [totalReceived |-> 0, byLevel |-> stats.byLevel, lastReceived |-> Null]

\* The object DELETE /logs assigns to stats.
ClearedStats ==
  [totalReceived |-> 0,
   byLevel |-> [debug |-> Num(0), info |-> Num(0), warn |-> Num(0), error |-> Num(0)],
   lastReceived |-> Null]

\* Mutant: only the level is validated.
MissingRequiredLevelOnly(log) == ~Truthy(Field(log, "level"))

\* The validation of POST /logs.
MissingRequired(log) ==
  ~Truthy(Field(log, "level")) \/ ~Truthy(Field(log, "message"))

\* Mutant: the fields of the document are spread last.
ReceivedLogBodyWins(log, timestamp, id) ==
  [k \in DOMAIN log \cup {"received_at", "id"} |->
     IF k \in DOMAIN log THEN log[k]
     ELSE IF k = "received_at" THEN timestamp
     ELSE id]

\* { ...log, received_at: timestamp, id: ... }
ReceivedLog(log, timestamp, id) ==
  [k \in DOMAIN log \cup {"received_at", "id"} |->
     IF k = "received_at" THEN timestamp
     ELSE IF k = "id" THEN id
     ELSE log[k]]

\* Mutant: the record is pushed at the end.
UnshiftAtEnd(logs, x) == logs \o <<x>>

\* array.unshift(x)
Unshift(logs, x) == <<x>> \o logs

\* Mutant: the array is never truncated.
SpliceNothing(logs, n) == logs

\* Mutant: the newest records are the ones dropped.
SpliceKeepsOldest(logs, n) ==
  IF Len(logs) > n THEN SubSeq(logs, Len(logs) - n + 1, Len(logs)) ELSE logs

\* array.splice(n): drops everything from index n on.
Splice(logs, n) == IF Len(logs) > n THEN SubSeq(logs, 1, n) ELSE logs

\* (x || 0) + 1
OrZeroPlusOne(x) ==
  LET y == IF Truthy(x) THEN x ELSE Num(0)
  IN  CASE y.t = "number" -> Num(y.v + 1)
        [] y.t = "string" -> Str(y.v \o "1")
        [] y.t = "function" ->
             Str("function " \o y.v \o "() { [native code] }" \o "1")

\* The property key a value is converted to when it indexes an object.
PropertyKey(x) == IF x.t = "number" THEN ToString(x.v) ELSE x.v

\* Mutant: totalReceived is not incremented.
CountTotalSkipped(st) == st

\* stats.totalReceived++
CountTotal(st) == [st EXCEPT !.totalReceived = @ + 1]

\* stats.byLevel[log.level] = (stats.byLevel[log.level] || 0) + 1
CountLevel(st, log) ==
  LET key == PropertyKey(log["level"])
  IN  [st EXCEPT !.byLevel = SetProperty(@, key, OrZeroPlusOne(GetProperty(@, key)))]

\* Mutant: lastReceived is left as it was.
SetLastReceivedSkipped(st, timestamp) == st

\* stats.lastReceived = timestamp
SetLastReceived(st, timestamp) == [st EXCEPT !.lastReceived = timestamp]

\* The three statements that update the statistics, in order.
CountLog(st, log, timestamp) ==
  SetLastReceived(CountLevel(CountTotal(st), log), timestamp)

NoResponse == [op |-> "none", status |-> 0, body |-> <<>>]

\* The generator process before it is started.
NotStarted == [alive |-> FALSE, calls |-> <<>>, console |-> "none"]

\* ------------------------------------------------------------------------
\* The event loop
\* ------------------------------------------------------------------------
\* No handler is on the call stack.
Idle == [op |-> "idle", pc |-> "none"]

\* Mutant: POST /logs awaits between unshift and splice.
YieldsBeforeSplice(pc) == pc = "splice"

\* Whether a handler gives the thread back before the statement pc: the
\* handlers of api.js are synchronous functions, none awaits or defers.
Yields(pc) == FALSE

\* A handler has called res.json once more.
Sent(r) == [r EXCEPT !.sent = @ + 1]

\* Mutant: the response is sent without `return`, the handler goes on with
\* the statement next.
FallsThrough(r, next) == [r EXCEPT !.pc = next]

\* `return res.status(400).json(...)`: the handler r ends with the response
\* instead of going on with the statement next.
ReturnsResponse(r, next) == Idle

\* Node starts a request's handler only when the call stack is empty or the
\* handler that was running has yielded.
Dispatchable == running.op = "idle" \/ Yields(running.pc)

\* ------------------------------------------------------------------------
\* Handlers as functions of the store
\* ------------------------------------------------------------------------
\* api.js:88-104, the accepted branch of POST /logs on the store
\* [logs, stats].
Admit(store, log, timestamp, draw) ==
  [logs |-> Splice(Unshift(store.logs, ReceivedLog(log, timestamp, RandomId(draw))),
                   MaxLogs),
   stats |-> CountLog(store.stats, log, timestamp)]

EmptyStore == [logs |-> <<>>, stats |-> InitialStats]

\* ------------------------------------------------------------------------
\* Inputs
\* ------------------------------------------------------------------------
KnownLevels == <<"debug", "info", "warn", "error">>
Messages == <<"Pay", "PAY", "x">>
Sources == <<"payment-service", "api">>

\* The bodies POST /logs is called with.
PostBodies ==
  {[level |-> Str("info"), message |-> Str("Pay"), source |-> Str("payment-service")],
   [level |-> Str("error"), message |-> Str("PAY"), source |-> Str("api")],
   [level |-> Str("audit"), message |-> Str("x")],
   [level |-> Str("toString"), message |-> Str("x")],
   [message |-> Str("x")],
   [level |-> Str("info")],
   [level |-> Str(""), message |-> Str("x"), source |-> Str("api")],
   [level |-> Str("warn"), message |-> Str("")]}

\* The outcomes of Math.random() a POST may draw.
Draws == {1, 2}

\* A server that has been running for a while: the k-th document it was
\* sent, the clock when it arrived and the outcome of Math.random() then.
EarlierLog(k) ==
  [level |-> Str(KnownLevels[(k % 4) + 1]),
   message |-> Str(Messages[(k % 3) + 1]),
   source |-> Str(Sources[(k % 2) + 1])]
EarlierTime(k) == k \div 2
EarlierDraw(k) == k + 1

\* The store after the documents lo .. hi were admitted to store, in order.
\* The range is halved, and the store is looked at before it is used, only to
\* keep the evaluation shallow.
RECURSIVE AdmitEarlier(_, _, _)
AdmitEarlier(store, lo, hi) ==
  IF lo > hi \/ store.stats.totalReceived < 0 THEN store
  ELSE IF lo = hi
  THEN Admit(store, EarlierLog(lo), ToISOString(EarlierTime(lo)), EarlierDraw(lo))
  ELSE LET mid == (lo + hi) \div 2
       IN  AdmitEarlier(AdmitEarlier(store, lo, mid), mid + 1, hi)

\* The store after the first n of those documents were admitted.
StoreAfter(n) == AdmitEarlier(EmptyStore, 1, n)

\* The stores a run starts from: the empty store of a fresh process, and a
\* store one record short of the cap.
StartSizes == {0, MaxLogs - 1}

\* The clock: it starts after the earlier documents and advances by at most
\* one millisecond in a run.
StartTime == EarlierTime(MaxLogs)
LastTime == StartTime + 1

\* ------------------------------------------------------------------------
\* History
\* ------------------------------------------------------------------------
\* history = [earlier |-> n, later |-> records]: since the last clear the
\* first n earlier documents were admitted, and then the records of later.
EarlierRecords ==
  [k \in 1 .. MaxLogs |->
     ReceivedLog(EarlierLog(k), ToISOString(EarlierTime(k)), RandomId(EarlierDraw(k)))]

NumAdmitted == history.earlier + Len(history.later)

\* The i-th record admitted since the last clear.
Admitted(i) ==
  IF i <= history.earlier THEN EarlierRecords[i]
  ELSE history.later[i - history.earlier]

\* ------------------------------------------------------------------------
\* The generator: how a document is built
\* ------------------------------------------------------------------------
\* Math.random() returns a number in [0, 1); an outcome is given in
\* hundredths, h standing for h / RandomScale.
RandomScale == 100

SourceName == "payment-service"

\* Object.entries(logWeights)
LogWeights ==
  <<[item |-> "debug", weight |-> 80], [item |-> "info", weight |-> 15],
    [item |-> "warn", weight |-> 4], [item |-> "error", weight |-> 1]>>

\* The sum of the weights of the first n entries.
RECURSIVE Cumulative(_, _)
Cumulative(weightObj, n) ==
  IF n = 0 THEN 0 ELSE Cumulative(weightObj, n - 1) + weightObj[n].weight

\* weightedRandom: r = Math.random() * totalWeight; the first item with
\* r < cumulative, else the first key; r < c is compared in hundredths.
WeightedRandom(weightObj, random) ==
  LET totalWeight == Cumulative(weightObj, Len(weightObj))
      hits == {i \in 1 .. Len(weightObj) :
                 random * totalWeight < Cumulative(weightObj, i) * RandomScale}
  IN  IF hits # {}
      THEN weightObj[CHOOSE i \in hits : \A j \in hits : i <= j].item
      ELSE weightObj[1].item

\* pick: arr[Math.floor(Math.random() * arr.length)]
Pick(arr, random) == arr[((random * Len(arr)) \div RandomScale) + 1]

\* randomInt: Math.floor(Math.random() * (max - min + 1)) + min
RandomInt(min, max, random) == ((random * (max - min + 1)) \div RandomScale) + min

\* mapEvent: eventMap
EventMap ==
  [error |-> <<"PAYMENT_FAILURE", "SYSTEM_ERROR", "SECURITY_VIOLATION", "DATABASE_ERROR">>,
   warn |-> <<"PERFORMANCE_ALERT", "CAPACITY_WARNING", "DEPRECATION_WARNING">>,
   info |-> <<"PAYMENT_SUCCESS", "SUBSCRIPTION_CREATED", "USER_ACTION", "SYSTEM_HEALTH">>,
   debug |-> <<"INTERNAL_OPERATION", "VALIDATION_STEP", "CACHE_OPERATION", "DATABASE_QUERY">>]

MapEvent(level, random) == Pick(EventMap[level], random)

\* logTemplates; a template is the sequence of its pieces, a placeholder
\* being a piece of its own.
LogTemplates ==
  [debug |-> << <<"Validating transaction request payload">>,
                <<"Fetching exchange rates from cache">>,
                <<"Checking user session token">>,
                <<"Preparing SQL statement for transaction insert">> >>,
   info |-> << <<"Payment of $", "%AMOUNT%", " completed successfully for user ", "%USER%">>,
               <<"Refund of $", "%AMOUNT%", " processed for order #", "%ORDER%">>,
               <<"Payment gateway responded in ", "%TIME%", "ms">> >>,
   warn |-> << <<"Transaction delay detected: ", "%TIME%", "ms latency">>,
               <<"Gateway returned HTTP 429 (rate limit)">>,
               <<"Payment queue length at ", "%PERCENT%", "% capacity">> >>,
   error |-> << <<"Transaction failed for ", "%USER%", " - card declined">>,
                <<"Database error: duplicate transaction ID">>,
                <<"Critical: lost connection to payment gateway">> >>]

Users ==
  <<"alice", "bob", "charlie", "diana", "eve", "frank", "grace", "henry",
    "ivy", "jack", "karen", "leo", "mia", "nathan", "olivia", "paul">>

ErrorSamples ==
  <<"ECONNRESET", "ETIMEOUT", "EACCESS", "UnknownError", "SQLIntegrityConstraintViolation",
    "SSLHandshakeException", "OutOfMemoryError", "NullPointerException", "StackOverflowError">>

Amounts == <<5, 10, 25, 50, 100, 200, 500, 1000, 1500, 2000, 5000>>

\* String.prototype.padStart(width, '0')
RECURSIVE PadStart(_, _)
PadStart(text, width) == IF Len(text) >= width THEN text ELSE PadStart("0" \o text, width)

\* orders: `ORD${Math.floor(Math.random() * 10000).toString().padStart(4, '0')}`
Orders(random) == "ORD" \o PadStart(ToString((random * 10000) \div RandomScale), 4)

\* String.prototype.replace with a string pattern: the first occurrence of
\* the placeholder is replaced by the text of the value. The pieces are
\* bound by p, so that a chain of replacements evaluates each link once.
Replace(pieces, placeholder, value) ==
  CHOOSE replaced \in
    {IF \E i \in 1 .. Len(p) : p[i] = placeholder
     THEN [p EXCEPT ![CHOOSE i \in 1 .. Len(p) :
                        /\ p[i] = placeholder
                        /\ \A j \in 1 .. (i - 1) : p[j] # placeholder] = value]
     ELSE p : p \in {pieces}} : TRUE

\* Mutant: the message comes out empty.
TextEmpty(pieces) == ""

\* The string the pieces make up.
RECURSIVE Text(_)
Text(pieces) == IF pieces = <<>> THEN "" ELSE Head(pieces) \o Text(Tail(pieces))

\* A JavaScript object as a value.
Obj(fields) == [t |-> "object", v |-> fields]

\* createRealisticLog, draw holding the outcomes of its calls of
\* Math.random(). The fields app, transaction, user, payment_method, metrics,
\* http, geo, business and metadata are context data that POST /logs stores
\* as it finds them; they are left out.
CreateRealisticLog(draw, clock) ==
  LET level == WeightedRandom(LogWeights, draw.level)
      template == Pick(LogTemplates[level], draw.template)
      message ==
        Text(Replace(Replace(Replace(Replace(Replace(Replace(Replace(template,
          "%USER%", Pick(Users, draw.user)),
          "%AMOUNT%", ToString(Pick(Amounts, draw.amount))),
          "%TIME%", ToString(RandomInt(50, 5000, draw.time))),
          "%PERCENT%", ToString(RandomInt(50, 100, draw.percent))),
          "%ERROR%", Pick(ErrorSamples, draw.error)),
          "%ORDER%", Orders(draw.order)),
          "%RETRY%", ToString(RandomInt(1, 5, draw.retry))))
  IN  [source |-> Str(SourceName),
       level |-> Str(level),
       message |-> Str(message),
       event |-> Str(MapEvent(level, draw.event)),
       timestamp |-> ToISOString(clock),
       error |-> IF level = "error"
                 THEN Obj([code |-> Str(Pick(ErrorSamples, draw.code)),
                           message |-> Str(message)])
                 ELSE Undefined]

\* The outcomes of Math.random() of one call, all equal to random but the
\* two named.
DrawOf(level, template, random) ==
  [level |-> level, template |-> template, user |-> random, amount |-> random,
   time |-> random, percent |-> random, error |-> random, order |-> random,
   retry |-> random, event |-> random, code |-> random]

\* JSON.stringify in axios.post and JSON.parse in express.json(): a property
\* whose value is undefined is not sent.
JsonRoundTrip(doc) == [k \in {j \in DOMAIN doc : doc[j] # Undefined} |-> doc[k]]

\* The top-level bindings of api.js: its imports and its declarations.
ApiBindings == {"express", "cors", "morgan", "app", "PORT", "receivedLogs", "stats"}

\* Whether an identifier used in api.js resolves; if not, evaluating it
\* throws a ReferenceError.
Resolves(name) == name \in ApiBindings

\* ------------------------------------------------------------------------
\* Specification: one action per handler
\* ------------------------------------------------------------------------
Init ==
  /\ \E n \in StartSizes :
       /\ receivedLogs = StoreAfter(n).logs
       /\ stats = StoreAfter(n).stats
       /\ history = [earlier |-> n, later |-> <<>>]
  /\ now = StartTime
  /\ res = NoResponse
  /\ nPosts = 0
  /\ running = Idle
  /\ generator = NotStarted
  /\ apiUp = TRUE

\* app.post('/logs'); Math.random() is called on the accepted path only.
PostLogsOn(log) ==
  LET timestamp == ToISOString(now)
  IN  /\ Dispatchable
      /\ IF MissingRequired(log)
         THEN /\ res' = [op |-> "POST /logs", status |-> 400,
                         body |-> [error |-> "Missing required fields: level and message"]]
              /\ UNCHANGED <<receivedLogs, stats, now, history, nPosts, running>>
         ELSE \E draw \in Draws :
                LET after == Admit([logs |-> receivedLogs, stats |-> stats],
                                   log, timestamp, draw)
                IN  /\ nPosts < MaxPosts
                    /\ receivedLogs' = after.logs
                    /\ stats' = after.stats
                    /\ res' = [op |-> "POST /logs", status |-> 202,
                               body |-> [status |-> "accepted",
                                         id |-> RandomId(draw),
                                         received_at |-> timestamp]]
                    /\ history' = [history EXCEPT
                                     !.later = Append(@, ReceivedLog(log, timestamp,
                                                                     RandomId(draw)))]
                    /\ nPosts' = nPosts + 1
                    /\ UNCHANGED <<now, running>>

\* POST /logs for a request that does not come from the generator.
PostLogs(log) == PostLogsOn(log) /\ UNCHANGED <<generator, apiUp>>

\* Mutant: GET /stats counts itself in totalReceived.
GetStatsCounting ==
  /\ Dispatchable
  /\ res' = [op |-> "GET /stats", status |-> 200,
             body |-> [totalReceived |-> stats.totalReceived,
                       byLevel |-> stats.byLevel,
                       lastReceived |-> stats.lastReceived,
                       storage |-> [totalLogs |-> Len(receivedLogs)]]]
  /\ stats' = [stats EXCEPT !.totalReceived = @ + 1]
  /\ UNCHANGED <<receivedLogs, now, history, nPosts, running>>
  /\ UNCHANGED <<generator, apiUp>>

\* app.get('/stats'); memoryUsage is informational and left out.
GetStats ==
  /\ Dispatchable
  /\ res' = [op |-> "GET /stats", status |-> 200,
             body |-> [totalReceived |-> stats.totalReceived,
                       byLevel |-> stats.byLevel,
                       lastReceived |-> stats.lastReceived,
                       storage |-> [totalLogs |-> Len(receivedLogs)]]]
  /\ UNCHANGED <<receivedLogs, stats, now, history, nPosts, running>>
  /\ UNCHANGED <<generator, apiUp>>

\* `Cleared ${count} logs`
ClearedMessage(count) == "Cleared " \o ToString(count) \o " logs"

\* app.delete('/logs')
DeleteLogs ==
  LET count == Len(receivedLogs)
  IN  /\ Dispatchable
      /\ receivedLogs' = <<>>
      /\ stats' = ClearedStats
      /\ res' = [op |-> "DELETE /logs", status |-> 200,
                 body |-> [message |-> ClearedMessage(count),
                           cleared_at |-> ToISOString(now)]]
      /\ history' = [earlier |-> 0, later |-> <<>>]
      /\ UNCHANGED <<now, nPosts, running>>
      /\ UNCHANGED <<generator, apiUp>>

\* app.get('/health'); uptime and memory are informational and left out.
GetHealth ==
  /\ Dispatchable
  /\ res' = [op |-> "GET /health", status |-> 200,
             body |-> [status |-> "healthy",
                       timestamp |-> ToISOString(now),
                       receivedLogs |-> Len(receivedLogs)]]
  /\ UNCHANGED <<receivedLogs, stats, now, history, nPosts, running>>
  /\ UNCHANGED <<generator, apiUp>>

\* The clock advances between requests.
Tick ==
  /\ now < LastTime
  /\ now' = now + 1
  /\ UNCHANGED <<receivedLogs, stats, res, history, nPosts, running>>
  /\ UNCHANGED <<generator, apiUp>>

Next ==
  \/ \E log \in PostBodies : PostLogs(log)
  \/ GetStats
  \/ DeleteLogs
  \/ Tick

Spec == Init /\ [][Next]_vars

\* ------------------------------------------------------------------------
\* Reads
\* ------------------------------------------------------------------------
\* Mutant: the filter keeps every record.
FilterByNothing(logs, field, value) == logs

\* array.filter(log => log[field] === value)
FilterBy(logs, field, value) ==
  SelectSeq(logs, LAMBDA log : Field(log, field) = value)

\* api.js:123-134: the level filter, then the source filter, each applied
\* when the parameter is truthy.
FilteredLogs(logs, query) ==
  LET level == Field(query, "level")
      source == Field(query, "source")
      byLevel == IF Truthy(level) THEN FilterBy(logs, "level", level) ELSE logs
  IN  IF Truthy(source) THEN FilterBy(byLevel, "source", source) ELSE byLevel

\* app.get('/logs'): query is req.query, a function from the parameters given
\* to their strings.
GetLogs(query) ==
  LET limit == IF "limit" \in DOMAIN query THEN query["limit"] ELSE Num(DefaultLimit)
      offset == IF "offset" \in DOMAIN query THEN query["offset"] ELSE Num(DefaultOffset)
      filteredLogs == FilteredLogs(receivedLogs, query)
      start == ParseInt(offset)
      end == Plus(start, ParseInt(limit))
  IN  /\ Dispatchable
      /\ res' = [op |-> "GET /logs", status |-> 200, req |-> query,
                 body |-> [logs |-> Slice(filteredLogs, start, end),
                           pagination |-> [total |-> Len(filteredLogs),
                                           limit |-> JsonNumber(ParseInt(limit)),
                                           offset |-> JsonNumber(start),
                                           hasMore |-> LessThan(end, Len(filteredLogs))]]]
      /\ UNCHANGED <<receivedLogs, stats, now, history, nPosts, running>>
      /\ UNCHANGED <<generator, apiUp>>

\* req.query with the parameters that are given (those not Undefined).
MakeQuery(params) ==
  [k \in {j \in DOMAIN params : params[j] # Undefined} |-> params[k]]

\* The queries GET /logs is called with.
ListQueries ==
  {MakeQuery([level |-> l, source |-> s, limit |-> li, offset |-> o]) :
     l \in {Undefined, Str("error"), Str("")},
     s \in {Undefined, Str("api")},
     li \in {Undefined, Str("-1"), Str("0"), Str("2"), Str("50"), Str("abc"), Str("")},
     o \in {Undefined, Str("0"), Str("1"), Str("1000"), Str("-1"), Str("abc")}}

\* The stores the reads are run on.
ReadSizes == {0, 2, DefaultLimit, DefaultLimit + 1}

InitReads ==
  /\ \E n \in ReadSizes :
       /\ receivedLogs = StoreAfter(n).logs
       /\ stats = StoreAfter(n).stats
       /\ history = [earlier |-> n, later |-> <<>>]
  /\ now = StartTime
  /\ res = NoResponse
  /\ nPosts = 0
  /\ running = Idle
  /\ generator = NotStarted
  /\ apiUp = TRUE

NextReads ==
  \/ \E query \in ListQueries : GetLogs(query)
  \/ GetStats
  \/ GetHealth

\* The read handlers on the stores of ReadSizes.
SpecReads == InitReads /\ [][NextReads]_vars

\* ------------------------------------------------------------------------
\* GET /search
\* ------------------------------------------------------------------------
\* String.prototype.toLowerCase on the letters the strings are written with.
LowerCase ==
  [c \in {"P", "A", "Y"} |-> CASE c = "P" -> "p" [] c = "A" -> "a" [] c = "Y" -> "y"]

ToLowerCase(chars) ==
  [i \in 1 .. Len(chars) |->
     IF chars[i] \in DOMAIN LowerCase THEN LowerCase[chars[i]] ELSE chars[i]]

\* String.prototype.includes
Includes(chars, needle) ==
  \E i \in 0 .. (Len(chars) - Len(needle)) :
    \A j \in 1 .. Len(needle) : chars[i + j] = needle[j]

\* x.toLowerCase is a function on strings only; calling it on another value
\* throws a TypeError.
HasToLowerCase(x) == x.t = "string"

\* log.message.toLowerCase().includes(q.toLowerCase())
MessageMatches(log, q) ==
  Includes(ToLowerCase(Spelling[log["message"].v]), ToLowerCase(Spelling[q.v]))

\* Mutant: only an absent q is refused.
MissingQueryAbsentOnly(q) == q = Undefined

\* !q
MissingQuery(q) == ~Truthy(q)

\* app.get('/search'). The filter callback throws on the first record of
\* filteredLogs whose message has no toLowerCase; the handler has no catch
\* and the framework answers 500.
GetSearch(query) ==
  LET q == Field(query, "q")
      level == Field(query, "level")
      filteredLogs == IF Truthy(level) THEN FilterBy(receivedLogs, "level", level)
                      ELSE receivedLogs
      throws == \E i \in 1 .. Len(filteredLogs) :
                  ~HasToLowerCase(Field(filteredLogs[i], "message"))
      results == SelectSeq(filteredLogs, LAMBDA log : MessageMatches(log, q))
  IN  /\ Dispatchable
      /\ res' = IF MissingQuery(q)
                THEN [op |-> "GET /search", status |-> 400, req |-> query,
                      body |-> [error |-> "Query parameter \"q\" is required"]]
                ELSE IF throws
                THEN [op |-> "GET /search", status |-> 500, req |-> query,
                      body |-> [error |-> "TypeError: log.message.toLowerCase is not a function"]]
                ELSE [op |-> "GET /search", status |-> 200, req |-> query,
                      body |-> [results |-> Slice(results, Num(0), Num(MaxResults)),
                                total |-> Len(results)]]
      /\ UNCHANGED <<receivedLogs, stats, now, history, nPosts, running>>
      /\ UNCHANGED <<generator, apiUp>>

\* The queries GET /search is called with.
SearchQueries ==
  {MakeQuery([q |-> q, level |-> l]) :
     q \in {Undefined, Str(""), Str("pay"), Str("PAY"), Str("ay"), Str("x"), Str("z")},
     l \in {Undefined, Str("error"), Str("info"), Str("")}}

\* A document whose message is a number: it passes the validation of
\* POST /logs.
NumberMessage == [level |-> Str("info"), message |-> Num(5)]

\* The stores GET /search runs on: n earlier documents, the largest with more
\* than MaxResults messages that contain "pay", each also followed by
\* NumberMessage.
SearchSizes == {0, 2, MaxResults + DefaultLimit + 2}

InitSearch ==
  /\ \E n \in SearchSizes :
       \/ /\ receivedLogs = StoreAfter(n).logs
          /\ stats = StoreAfter(n).stats
          /\ history = [earlier |-> n, later |-> <<>>]
       \/ LET timestamp == ToISOString(StartTime)
              draw == EarlierDraw(n + 1)
              after == Admit(StoreAfter(n), NumberMessage, timestamp, draw)
          IN  /\ receivedLogs = after.logs
              /\ stats = after.stats
              /\ history = [earlier |-> n,
                            later |-> <<ReceivedLog(NumberMessage, timestamp,
                                                    RandomId(draw))>>]
  /\ now = StartTime
  /\ res = NoResponse
  /\ nPosts = 0
  /\ running = Idle
  /\ generator = NotStarted
  /\ apiUp = TRUE

NextSearch ==
  \/ \E query \in SearchQueries : GetSearch(query)
  \/ GetStats
  \/ GetHealth

\* GET /search on the stores of SearchSizes.
SpecSearch == InitSearch /\ [][NextSearch]_vars

\* ------------------------------------------------------------------------
\* A session: documents posted, then listed and searched
\* ------------------------------------------------------------------------
\* The documents of a session: a usual one, one with a level of its own and
\* a number as message, one with an id, a received_at and a field of its own,
\* one whose message is the number 0, and two that lack a level.
SessionBodies ==
  {[level |-> Str("info"), message |-> Str("Pay"), source |-> Str("payment-service")],
   [level |-> Str("warn"), message |-> Str("x"), id |-> Str("mine"),
    received_at |-> Str("then"), user |-> Str("eve")],
   [level |-> Str("audit"), message |-> Num(5)],
   [level |-> Str("info"), message |-> Num(0)],
   [message |-> Str("x")],
   [level |-> Str(""), message |-> Str("x")]}

SessionLists == {MakeQuery([level |-> Undefined]), MakeQuery([level |-> Str("info")])}

SessionSearches ==
  {MakeQuery([q |-> Str("pay")]),
   MakeQuery([q |-> Str("PAY"), level |-> Str("info")]),
   MakeQuery([level |-> Str("info")])}

InitSession ==
  /\ receivedLogs = <<>>
  /\ stats = InitialStats
  /\ history = [earlier |-> 0, later |-> <<>>]
  /\ now = StartTime
  /\ res = NoResponse
  /\ nPosts = 0
  /\ running = Idle
  /\ generator = NotStarted
  /\ apiUp = TRUE

\* The outcomes of Math.random() the generator runs are made with: an info
\* document and an error document.
GeneratorDraws == {DrawOf(80, 0, 0), DrawOf(99, 0, 99)}

\* app.get('/sample-log'): createRealisticLog is no binding of api.js, so
\* the call throws a ReferenceError and the framework answers 500.
GetSampleLog ==
  /\ Dispatchable
  /\ IF Resolves("createRealisticLog")
     THEN \E draw \in GeneratorDraws :
            res' = [op |-> "GET /sample-log", status |-> 200,
                    body |-> JsonRoundTrip(CreateRealisticLog(draw, now))]
     ELSE res' = [op |-> "GET /sample-log", status |-> 500,
                  body |-> [error |-> "ReferenceError: createRealisticLog is not defined"]]
  /\ UNCHANGED <<receivedLogs, stats, now, history, nPosts, running>>
  /\ UNCHANGED <<generator, apiUp>>

SessionReads ==
  \/ \E query \in SessionLists : GetLogs(query)
  \/ \E query \in SessionSearches : GetSearch(query)
  \/ GetStats
  \/ GetHealth

NextSession ==
  \/ \E log \in SessionBodies : PostLogs(log)
  \/ SessionReads
  \/ GetSampleLog
  \/ DeleteLogs
  \/ Tick

\* Every handler, from the empty store.
SpecSession == InitSession /\ [][NextSession]_vars

\* ------------------------------------------------------------------------
\* The mutating handlers one statement at a time
\* ------------------------------------------------------------------------
\* The bodies and the query of the statement-level runs.
StepBodies ==
  {[level |-> Str("info"), message |-> Str("Pay"), source |-> Str("payment-service")],
   [level |-> Str("audit"), message |-> Str("x")],
   [message |-> Str("x")]}
StepQueries == {MakeQuery([level |-> Undefined])}

\* api.js:71-77: Express calls the handler of POST /logs, which reads the
\* body and the clock.
StartPost(log) ==
  /\ running.op = "idle"
  /\ MissingRequired(log) \/ nPosts < MaxPosts
  /\ running' = [op |-> "POST /logs", pc |-> "validate", sent |-> 0, log |-> log,
                 timestamp |-> ToISOString(now)]
  /\ UNCHANGED <<receivedLogs, stats, now, res, history, nPosts>>
  /\ UNCHANGED <<generator, apiUp>>

\* The next statement of POST /logs.
StepPost ==
  /\ running.op = "POST /logs"
  /\ \/ /\ running.pc = "validate"
        /\ IF MissingRequired(running.log)
           THEN /\ res' = [op |-> "POST /logs", status |-> 400,
                           body |-> [error |-> "Missing required fields: level and message"]]
                /\ running' = ReturnsResponse(Sent(running), "unshift")
           ELSE /\ running' = [running EXCEPT !.pc = "unshift"]
                /\ UNCHANGED res
        /\ UNCHANGED <<receivedLogs, stats, now, history, nPosts>>
     \/ /\ running.pc = "unshift"
        /\ \E draw \in Draws :
             LET receivedLog == ReceivedLog(running.log, running.timestamp,
                                            RandomId(draw))
             IN  /\ receivedLogs' = Unshift(receivedLogs, receivedLog)
                 /\ history' = [history EXCEPT !.later = Append(@, receivedLog)]
                 /\ running' = [op |-> "POST /logs", pc |-> "splice",
                                sent |-> running.sent,
                                log |-> running.log,
                                timestamp |-> running.timestamp,
                                receivedLog |-> receivedLog]
        /\ UNCHANGED <<stats, now, res, nPosts>>
     \/ /\ running.pc = "splice"
        /\ receivedLogs' = Splice(receivedLogs, MaxLogs)
        /\ running' = [running EXCEPT !.pc = "total"]
        /\ UNCHANGED <<stats, now, res, history, nPosts>>
     \/ /\ running.pc = "total"
        /\ stats' = CountTotal(stats)
        /\ running' = [running EXCEPT !.pc = "level"]
        /\ UNCHANGED <<receivedLogs, now, res, history, nPosts>>
     \/ /\ running.pc = "level"
        /\ stats' = CountLevel(stats, running.log)
        /\ running' = [running EXCEPT !.pc = "last"]
        /\ UNCHANGED <<receivedLogs, now, res, history, nPosts>>
     \/ /\ running.pc = "last"
        /\ stats' = SetLastReceived(stats, running.timestamp)
        /\ running' = [running EXCEPT !.pc = "respond"]
        /\ UNCHANGED <<receivedLogs, now, res, history, nPosts>>
     \/ /\ running.pc = "respond"
        /\ res' = [op |-> "POST /logs", status |-> 202,
                   body |-> [status |-> "accepted",
                             id |-> running.receivedLog["id"],
                             received_at |-> running.timestamp]]
        /\ nPosts' = nPosts + 1
        /\ running' = Idle
        /\ UNCHANGED <<receivedLogs, stats, now, history>>
  /\ UNCHANGED <<generator, apiUp>>

\* api.js:197: Express calls the handler of DELETE /logs.
StartDelete ==
  /\ running.op = "idle"
  /\ running' = [op |-> "DELETE /logs", pc |-> "count", sent |-> 0]
  /\ UNCHANGED <<receivedLogs, stats, now, res, history, nPosts>>
  /\ UNCHANGED <<generator, apiUp>>

\* The next statement of DELETE /logs.
StepDelete ==
  /\ running.op = "DELETE /logs"
  /\ \/ /\ running.pc = "count"
        /\ running' = [op |-> "DELETE /logs", pc |-> "truncate", sent |-> running.sent,
                       count |-> Len(receivedLogs)]
        /\ UNCHANGED <<receivedLogs, stats, now, res, history, nPosts>>
     \/ /\ running.pc = "truncate"
        /\ receivedLogs' = <<>>
        /\ history' = [earlier |-> 0, later |-> <<>>]
        /\ running' = [running EXCEPT !.pc = "reset"]
        /\ UNCHANGED <<stats, now, res, nPosts>>
     \/ /\ running.pc = "reset"
        /\ stats' = ClearedStats
        /\ running' = [running EXCEPT !.pc = "respond"]
        /\ UNCHANGED <<receivedLogs, now, res, history, nPosts>>
     \/ /\ running.pc = "respond"
        /\ res' = [op |-> "DELETE /logs", status |-> 200,
                   body |-> [message |-> ClearedMessage(running.count),
                             cleared_at |-> ToISOString(now)]]
        /\ running' = Idle
        /\ UNCHANGED <<receivedLogs, stats, now, history, nPosts>>
  /\ UNCHANGED <<generator, apiUp>>

\* api.js:167-169: Express calls the handler of GET /search, which reads
\* the query.
StartSearch(query) ==
  /\ running.op = "idle"
  /\ running' = [op |-> "GET /search", pc |-> "require", sent |-> 0, query |-> query]
  /\ UNCHANGED <<receivedLogs, stats, now, res, history, nPosts>>
  /\ UNCHANGED <<generator, apiUp>>

\* The next statement of GET /search. In the filter callback a message or a
\* q without toLowerCase throws, which ends the handler; the framework
\* answers 500.
StepSearch ==
  LET q == Field(running.query, "q")
      level == Field(running.query, "level")
      filteredLogs == IF Truthy(level) THEN FilterBy(receivedLogs, "level", level)
                      ELSE receivedLogs
      throws == \E i \in 1 .. Len(filteredLogs) :
                  \/ ~HasToLowerCase(Field(filteredLogs[i], "message"))
                  \/ ~HasToLowerCase(q)
  IN  /\ running.op = "GET /search"
      /\ \/ /\ running.pc = "require"
            /\ IF MissingQuery(q)
               THEN /\ res' = [op |-> "GET /search", status |-> 400, req |-> running.query,
                               body |-> [error |-> "Query parameter \"q\" is required"]]
                    /\ running' = ReturnsResponse(Sent(running), "filter")
               ELSE /\ running' = [running EXCEPT !.pc = "filter"]
                    /\ UNCHANGED res
         \/ /\ running.pc = "filter"
            /\ IF throws
               THEN /\ res' = [op |-> "GET /search", status |-> 500, req |-> running.query,
                               body |-> [error |-> "TypeError: log.message.toLowerCase is not a function"]]
                    /\ running' = Idle
               ELSE /\ running' = [op |-> "GET /search", pc |-> "respond",
                                   sent |-> running.sent, query |-> running.query,
                                   results |-> SelectSeq(filteredLogs,
                                                         LAMBDA log : MessageMatches(log, q))]
                    /\ UNCHANGED res
         \/ /\ running.pc = "respond"
            /\ res' = [op |-> "GET /search", status |-> 200, req |-> running.query,
                       body |-> [results |-> Slice(running.results, Num(0), Num(MaxResults)),
                                 total |-> Len(running.results)]]
            /\ running' = Idle
      /\ UNCHANGED <<receivedLogs, stats, now, history, nPosts>>
      /\ UNCHANGED <<generator, apiUp>>

\* A read handler runs.
Reads ==
  \/ GetStats
  \/ GetHealth
  \/ \E query \in StepQueries : GetLogs(query)

NextSteps ==
  \/ \E log \in StepBodies : StartPost(log)
  \/ StepPost
  \/ StartDelete
  \/ StepDelete
  \/ Reads

\* The handlers of POST /logs and DELETE /logs statement by statement, the
\* reads in between wherever the event loop can start them; the requests of
\* a run arrive within one millisecond.
SpecSteps == Init /\ [][NextSteps]_vars

\* The requests of a session with POST /logs, DELETE /logs and GET /search
\* statement by statement.
NextRequests ==
  \/ \E log \in SessionBodies : StartPost(log)
  \/ StepPost
  \/ StartDelete
  \/ StepDelete
  \/ \E query \in SessionSearches : StartSearch(query)
  \/ StepSearch
  \/ GetStats
  \/ \E query \in SessionLists : GetLogs(query)

SpecRequests == InitSession /\ [][NextRequests]_vars

\* ------------------------------------------------------------------------
\* The generator process
\* ------------------------------------------------------------------------
MaxPending == 1       \* posts of the generator that are not yet settled

\* The generator after its module has run: the timer is set.
Started == [alive |-> TRUE, calls |-> <<>>, console |-> "started"]

\* Mutant: the await is outside the try block.
AwaitOutsideTry(statement) == FALSE

\* Whether a statement of the timer callback is inside its try block: the
\* await of axios.post is.
InTry(statement) == statement = "await axios.post"

\* Whether axios resolves the promise for a response status (validateStatus).
ValidateStatus(status) == status >= 200 /\ status < 300

\* The sequence without its i-th element.
RemoveAt(seq, i) == SubSeq(seq, 1, i - 1) \o SubSeq(seq, i + 1, Len(seq))

\* The timer fires: the callback builds a document, calls axios.post and
\* is suspended at the await. The timer does not wait for earlier calls.
TimerFires ==
  /\ generator.alive
  /\ Len(generator.calls) < MaxPending
  /\ \E draw \in GeneratorDraws :
       generator' = [generator EXCEPT
                       !.calls = Append(@, [log |-> CreateRealisticLog(draw, now),
                                            state |-> "awaiting"])]
  /\ UNCHANGED <<receivedLogs, stats, now, res, history, nPosts, running, apiUp>>

\* A post of the generator reaches the API, POST /logs handles it and
\* axios settles the promise according to the status of the response.
ApiReceives ==
  /\ apiUp
  /\ \E i \in 1 .. Len(generator.calls) :
       /\ generator.calls[i].state = "awaiting"
       /\ PostLogsOn(JsonRoundTrip(generator.calls[i].log))
       /\ generator' = [generator EXCEPT
                          !.calls[i].state = IF ValidateStatus(res'.status)
                                             THEN "resolved" ELSE "rejected"]
  /\ UNCHANGED apiUp

\* A post of the generator finds no API: axios rejects the promise.
ConnectionFails ==
  /\ ~apiUp
  /\ \E i \in 1 .. Len(generator.calls) :
       /\ generator.calls[i].state = "awaiting"
       /\ generator' = [generator EXCEPT !.calls[i].state = "rejected"]
  /\ UNCHANGED <<receivedLogs, stats, now, res, history, nPosts, running, apiUp>>

\* A suspended callback goes on after its await: console.log after a
\* resolved promise, the catch block after a rejected one; a rejection
\* outside a try block is unhandled and ends the process.
Resumes ==
  /\ generator.alive
  /\ \E i \in 1 .. Len(generator.calls) :
       /\ generator.calls[i].state # "awaiting"
       /\ generator' =
            IF generator.calls[i].state = "resolved"
            THEN [generator EXCEPT !.calls = RemoveAt(@, i), !.console = "Sent log"]
            ELSE IF InTry("await axios.post")
            THEN [generator EXCEPT !.calls = RemoveAt(@, i),
                                   !.console = "Failed to send log"]
            ELSE [alive |-> FALSE, calls |-> <<>>, console |-> "UnhandledPromiseRejection"]
  /\ UNCHANGED <<receivedLogs, stats, now, res, history, nPosts, running, apiUp>>

\* The API stops being reachable, and is reachable again.
ApiGoesDown ==
  /\ apiUp
  /\ apiUp' = FALSE
  /\ UNCHANGED <<receivedLogs, stats, now, res, history, nPosts, running, generator>>

ApiComesUp ==
  /\ ~apiUp
  /\ apiUp' = TRUE
  /\ UNCHANGED <<receivedLogs, stats, now, res, history, nPosts, running, generator>>

InitGenerator ==
  /\ receivedLogs = <<>>
  /\ stats = InitialStats
  /\ history = [earlier |-> 0, later |-> <<>>]
  /\ now = StartTime
  /\ res = NoResponse
  /\ nPosts = 0
  /\ running = Idle
  /\ generator = Started
  /\ apiUp \in BOOLEAN

NextGenerator ==
  \/ TimerFires
  \/ ApiReceives
  \/ ConnectionFails
  \/ Resumes
  \/ ApiGoesDown
  \/ ApiComesUp

\* The generator and the API it posts to.
SpecGenerator == InitGenerator /\ [][NextGenerator]_vars

\* The timer keeps firing, the API handles the requests that reach it and
\* the callbacks are resumed.
SpecGeneratorLive ==
  /\ SpecGenerator
  /\ WF_vars(TimerFires)
  /\ WF_vars(ApiReceives)
  /\ WF_vars(ConnectionFails)
  /\ WF_vars(Resumes)

\* ------------------------------------------------------------------------
\* Claims
\* ------------------------------------------------------------------------
Min(a, b) == IF a < b THEN a ELSE b

\* The last request was an accepted POST /logs.
Accepted == res.op = "POST /logs" /\ res.status = 202

\* C1: the store never holds more than 1000 records.
C1_AtMostMaxLogs == Len(receivedLogs) <= 1000

\* C1 witness: an admit into a full store has evicted a record.
C1_Witness == Accepted /\ NumAdmitted > 1000 /\ Len(receivedLogs) = 1000

\* C2: without a clear in between, the store holds the last min(N, 1000)
\* admitted records, newest first.
C2_LastAdmittedNewestFirst ==
  LET n == NumAdmitted
      m == Min(n, 1000)
  IN  /\ Len(receivedLogs) = m
      /\ \A i \in 1 .. m : receivedLogs[i] = Admitted(n + 1 - i)

\* C2 witness: more than 1000 were admitted, the last two in this run.
C2_Witness == Accepted /\ NumAdmitted = 1001 /\ Len(history.later) = 2

\* C3: records.length = min(totalReceived, 1000).
C3_LengthIsMinOfTotal ==
  /\ Len(receivedLogs) = Min(stats.totalReceived, 1000)
  /\ stats.totalReceived >= Len(receivedLogs)

\* C3 witness: more were received than the store holds.
C3_Witness == Accepted /\ stats.totalReceived > 1000

\* A required field is missing or the empty string.
MissingOrEmpty(log, k) == k \notin DOMAIN log \/ log[k] = Str("")

\* C4: a POST /logs without a level or a message is answered 400 and leaves
\* records and stats as they were.
C4_RejectedLeavesStore ==
  [][\A log \in PostBodies :
       (PostLogs(log) /\ (MissingOrEmpty(log, "level") \/ MissingOrEmpty(log, "message")))
         => /\ res'.status = 400
            /\ receivedLogs' = receivedLogs
            /\ stats' = stats]_vars

\* C4 witness: a POST was rejected while the store held records.
C4_Witness ==
  res.op = "POST /logs" /\ res.status = 400 /\ stats.totalReceived > 0

\* C5: no two records held at the same time have the same id.
C5_UniqueIds ==
  \A i \in 1 .. Len(receivedLogs) : \A j \in (i + 1) .. Len(receivedLogs) :
    receivedLogs[i]["id"] # receivedLogs[j]["id"]

\* The level strings of the bodies and of the earlier documents.
LevelStrings == {"debug", "info", "warn", "error", "audit", "toString"}

\* How many records admitted since the last clear have this level.
AdmittedWithLevel(l) ==
  Cardinality({i \in 1 .. NumAdmitted : Admitted(i)["level"] = Str(l)})

\* C6: byLevel[level] is the number of admitted records of that level, for
\* the four known levels and every level submitted.
C6_ByLevelCounts ==
  \A l \in LevelStrings :
    (l \in {"debug", "info", "warn", "error"} \/ AdmittedWithLevel(l) > 0)
      => /\ l \in DOMAIN stats.byLevel
         /\ stats.byLevel[l] = Num(AdmittedWithLevel(l))

\* C8: DELETE /logs reports the number of records held, leaves the store in
\* its initial state, and a stats call right after shows zero totals.
C8_ClearResets ==
  [][/\ DeleteLogs =>
          /\ res'.body.message = "Cleared " \o ToString(Len(receivedLogs)) \o " logs"
          /\ receivedLogs' = <<>>
          /\ stats' = [totalReceived |-> 0,
                       byLevel |-> [debug |-> Num(0), info |-> Num(0),
                                    warn |-> Num(0), error |-> Num(0)],
                       lastReceived |-> Null]
     /\ (res.op = "DELETE /logs" /\ GetStats) =>
          /\ res'.body.totalReceived = 0
          /\ res'.body.storage.totalLogs = 0]_vars

\* C8 witness: a full store was cleared.
C8_Witness ==
  /\ res.op = "DELETE /logs"
  /\ res.body.message = "Cleared 1000 logs"
  /\ receivedLogs = <<>>

\* The count byLevel holds for a key: 0 for a key it lacks.
OwnCount(byLevel, k) == IF k \in DOMAIN byLevel THEN byLevel[k] ELSE Num(0)

\* C9: an accepted POST raises totalReceived and the byLevel count of its
\* level by exactly 1 and no other count; only DELETE /logs lowers a counter;
\* after more than 1000 admits without a clear, totalReceived > records.length.
C9_CountersGrowByOne ==
  [][/\ nPosts' # nPosts =>
          LET key == receivedLogs'[1]["level"].v
          IN  /\ stats'.totalReceived = stats.totalReceived + 1
              /\ stats'.byLevel[key] = Num(OwnCount(stats.byLevel, key).v + 1)
              /\ \A k \in DOMAIN stats.byLevel \ {key} :
                   stats'.byLevel[k] = stats.byLevel[k]
     /\ ~DeleteLogs =>
          /\ stats'.totalReceived >= stats.totalReceived
          /\ \A k \in DOMAIN stats.byLevel : k \in DOMAIN stats'.byLevel
     /\ NumAdmitted' > 1000 => stats'.totalReceived > Len(receivedLogs')]_vars

\* The integers written by the decimal strings of the queries.
IntegerText ==
  [s \in {"0", "1", "2", "50", "-1", "1000"} |->
     CASE s = "0" -> 0 [] s = "1" -> 1 [] s = "2" -> 2 [] s = "50" -> 50
       [] s = "-1" -> 0 - 1 [] s = "1000" -> 1000]

\* The records of the store that satisfy the filters of a query.
Satisfying(query) ==
  SelectSeq(receivedLogs,
            LAMBDA log :
              /\ ("level" \in DOMAIN query /\ query["level"] # Str(""))
                   => ("level" \in DOMAIN log /\ log["level"] = query["level"])
              /\ ("source" \in DOMAIN query /\ query["source"] # Str(""))
                   => ("source" \in DOMAIN log /\ log["source"] = query["source"]))

\* The elements of seq at the 0-based positions offset .. offset+limit-1.
Page(seq, offset, limit) ==
  LET last == Min(offset + limit, Len(seq))
  IN  [i \in 1 .. (IF last > offset THEN last - offset ELSE 0) |-> seq[offset + i]]

\* GET /logs was answered for an integer limit and an integer offset >= 0.
IntegerPage ==
  /\ res.op = "GET /logs"
  /\ "limit" \in DOMAIN res.req /\ res.req["limit"].v \in DOMAIN IntegerText
  /\ "offset" \in DOMAIN res.req /\ res.req["offset"].v \in DOMAIN IntegerText
  /\ IntegerText[res.req["offset"].v] >= 0

\* C10: for an integer limit and an integer offset >= 0, GET /logs returns
\* the elements offset .. offset+limit-1 of the filtered sequence, total is
\* the filtered count and hasMore is offset+limit < filtered count.
C10_PageIsSlice ==
  IntegerPage =>
    LET limit == IntegerText[res.req["limit"].v]
        offset == IntegerText[res.req["offset"].v]
        filtered == Satisfying(res.req)
    IN  /\ res.body.logs = Page(filtered, offset, limit)
        /\ Len(res.body.logs) <= (IF limit > 0 THEN limit ELSE 0)
        /\ res.body.pagination.total = Len(filtered)
        /\ res.body.pagination.hasMore = (offset + limit < Len(filtered))

\* C10 restricted to limit >= 0 (what the code does satisfy).
PageIsSliceForNaturalLimit ==
  (IntegerPage /\ IntegerText[res.req["limit"].v] >= 0) => C10_PageIsSlice

\* No mutation of the store is half done: everything inserted is within the
\* cap and counted, everything cleared is reset.
WholeStore ==
  /\ Len(receivedLogs) <= 1000
  /\ Len(receivedLogs) = Min(NumAdmitted, 1000)
  /\ stats.totalReceived = NumAdmitted
  /\ stats.lastReceived =
       (IF NumAdmitted = 0 THEN Null ELSE Admitted(NumAdmitted)["received_at"])
  /\ \A l \in {"debug", "info", "warn", "error", "audit"} :
       OwnCount(stats.byLevel, l) = Num(AdmittedWithLevel(l))

IntegerOffset ==
  /\ res.op = "GET /logs"
  /\ "offset" \in DOMAIN res.req /\ res.req["offset"].v \in DOMAIN IntegerText

\* C11: GET /logs with an offset at or beyond the filtered count, or with a
\* negative offset, answers 200 with an empty logs list.
C11_OutOfRangeOffsetIsEmpty ==
  (/\ IntegerOffset
   /\ \/ IntegerText[res.req["offset"].v] >= Len(Satisfying(res.req))
      \/ IntegerText[res.req["offset"].v] < 0)
    => (res.status = 200 /\ res.body.logs = <<>>)

\* C11 restricted to offsets at or beyond the filtered count (what the code
\* does satisfy).
OffsetBeyondCountIsEmpty ==
  (IntegerOffset /\ IntegerText[res.req["offset"].v] >= Len(Satisfying(res.req)))
    => (res.status = 200 /\ res.body.logs = <<>>)

\* The texts of the queries that are no integers.
MalformedText == {"abc", ""}
Malformed(query, k) == k \in DOMAIN query /\ query[k].v \in MalformedText

\* The number a parameter stands for when malformed or absent parameters
\* count as the documented default.
Tolerant(query, k, default) ==
  IF k \notin DOMAIN query \/ Malformed(query, k) THEN default
  ELSE IntegerText[query[k].v]

\* C12: a malformed limit is served like limit=50 and a malformed offset like
\* offset=0, in logs, pagination.limit, pagination.offset and hasMore.
C12_MalformedMeansDefault ==
  (/\ res.op = "GET /logs"
   /\ Malformed(res.req, "limit") \/ Malformed(res.req, "offset")
   /\ Tolerant(res.req, "limit", 50) >= 0
   /\ Tolerant(res.req, "offset", 0) >= 0)
    => LET limit == Tolerant(res.req, "limit", 50)
           offset == Tolerant(res.req, "offset", 0)
           filtered == Satisfying(res.req)
       IN  /\ res.body.logs = Page(filtered, offset, limit)
           /\ res.body.pagination.limit = Num(limit)
           /\ res.body.pagination.offset = Num(offset)
           /\ res.body.pagination.hasMore = (offset + limit < Len(filtered))

\* A filter with a value was given.
Filtering(query) ==
  \/ "level" \in DOMAIN query /\ query["level"] # Str("")
  \/ "source" \in DOMAIN query /\ query["source"] # Str("")

\* seq is a run of consecutive elements of whole.
IsSegment(seq, whole) ==
  \E a \in 0 .. (Len(whole) - Len(seq)) :
    \A i \in 1 .. Len(seq) : seq[i] = whole[a + i]

\* C13: with a level and/or source filter, GET /logs returns only records
\* with that level (source), in store order, and pagination.total is the
\* number of records of the store that satisfy the filters, whatever limit
\* and offset are.
C13_FilterExactAndTotal ==
  (res.op = "GET /logs" /\ Filtering(res.req)) =>
    /\ \A i \in 1 .. Len(res.body.logs) :
         /\ "level" \in DOMAIN res.req /\ res.req["level"] # Str("")
              => res.body.logs[i]["level"] = res.req["level"]
         /\ "source" \in DOMAIN res.req /\ res.req["source"] # Str("")
              => res.body.logs[i]["source"] = res.req["source"]
    /\ IsSegment(res.body.logs, Satisfying(res.req))
    /\ res.body.pagination.total =
         Cardinality({i \in 1 .. Len(receivedLogs) :
                        /\ "level" \in DOMAIN res.req /\ res.req["level"] # Str("")
                             => Field(receivedLogs[i], "level") = res.req["level"]
                        /\ "source" \in DOMAIN res.req /\ res.req["source"] # Str("")
                             => Field(receivedLogs[i], "source") = res.req["source"]})

\* C13 witness: a level filter returned some records of the store, not all.
C13_Witness ==
  /\ res.op = "GET /logs"
  /\ "level" \in DOMAIN res.req /\ res.req["level"] = Str("error")
  /\ Len(res.body.logs) > 0
  /\ res.body.pagination.total < Len(receivedLogs)

\* C14: GET /logs without parameters returns the first 50 records of the
\* store in store order, all of them when it holds fewer, and hasMore is
\* true exactly when the store holds more than 50.
C14_DefaultPage ==
  (res.op = "GET /logs" /\ DOMAIN res.req = {}) =>
    /\ res.body.logs = SubSeq(receivedLogs, 1, Min(50, Len(receivedLogs)))
    /\ res.body.pagination.hasMore = (Len(receivedLogs) > 50)

\* C14 witness: the default page of a store of 51 records.
C14_Witness ==
  /\ res.op = "GET /logs" /\ DOMAIN res.req = {}
  /\ Len(receivedLogs) = 51
  /\ Len(res.body.logs) = 50
  /\ res.body.pagination.hasMore

\* The two cases of a letter.
CasePairs == {{"p", "P"}, {"a", "A"}, {"y", "Y"}}
SameLetter(a, b) == a = b \/ {a, b} \in CasePairs

\* The message is a text that contains q, the case of letters ignored.
ContainsIgnoringCase(message, q) ==
  /\ message.t = "string"
  /\ \E i \in 0 .. (Len(Spelling[message.v]) - Len(Spelling[q.v])) :
       \A j \in 1 .. Len(Spelling[q.v]) :
         SameLetter(Spelling[message.v][i + j], Spelling[q.v][j])

\* The records of the store that a search query asks for, in store order.
Matching(query) ==
  SelectSeq(receivedLogs,
            LAMBDA log :
              /\ ("level" \in DOMAIN query /\ query["level"] # Str(""))
                   => Field(log, "level") = query["level"]
              /\ ContainsIgnoringCase(Field(log, "message"), query["q"]))

\* GET /search was answered for a non-empty q.
SearchAnswered ==
  res.op = "GET /search" /\ "q" \in DOMAIN res.req /\ res.req["q"] # Str("")

\* C15: GET /search with a non-empty q returns exactly the records (of the
\* given level, when one is given) whose message contains q, letter case
\* ignored on both sides, in store order.
C15_SearchExact ==
  SearchAnswered =>
    /\ res.status = 200
    /\ res.body.total = Len(Matching(res.req))
    /\ IsSegment(res.body.results, Matching(res.req))
    /\ Len(Matching(res.req)) <= MaxResults => res.body.results = Matching(res.req)

\* C16: results holds the first 100 matches in store order, total is the
\* number of all matches, and results has min(total, 100) records.
C16_FirstHundred ==
  SearchAnswered =>
    /\ res.status = 200
    /\ res.body.results =
         SubSeq(Matching(res.req), 1, Min(MaxResults, Len(Matching(res.req))))
    /\ res.body.total = Len(Matching(res.req))
    /\ Len(res.body.results) = Min(res.body.total, MaxResults)

\* Every message of the store is a text.
OnlyTextMessages ==
  \A i \in 1 .. Len(receivedLogs) : receivedLogs[i]["message"].t = "string"

\* C15 and C16 on the stores whose messages are all texts.
SearchExactOnTextMessages == OnlyTextMessages => C15_SearchExact
FirstHundredOnTextMessages == OnlyTextMessages => C16_FirstHundred

\* More than MaxResults records matched a search.
TruncatedSearch ==
  /\ SearchAnswered /\ res.status = 200
  /\ res.body.total > MaxResults /\ Len(res.body.results) = MaxResults

\* C17: GET /logs, GET /search, GET /stats and GET /health leave records,
\* totalReceived, byLevel and lastReceived as they were, and a GET /stats
\* right after a GET /stats returns the same values.
C17_ReadsChangeNothing ==
  [][SessionReads =>
       /\ UNCHANGED <<receivedLogs, stats>>
       /\ (res.op = "GET /stats" /\ GetStats) => res'.body = res.body]_vars

\* C17 witness: GET /stats answered on a store that has admitted records.
C17_Witness ==
  /\ res.op = "GET /stats"
  /\ res.body.totalReceived > 0
  /\ res.body.totalReceived = stats.totalReceived

\* C18: when POST /logs answers 202 with id I and received_at T, the record
\* with id I and received_at T is at position 0 and lastReceived is T; every
\* later list or search returns each record of the store that satisfies it.
C18_ReadYourWrites ==
  [][/\ (res'.op = "POST /logs" /\ res'.status = 202 /\ nPosts' = nPosts + 1) =>
          /\ receivedLogs'[1]["id"] = res'.body.id
          /\ receivedLogs'[1]["received_at"] = res'.body.received_at
          /\ stats'.lastReceived = res'.body.received_at
     /\ \A query \in SessionLists :
          GetLogs(query) =>
            \A i \in 1 .. Len(Satisfying(query)) :
              i <= DefaultLimit =>
                \E j \in 1 .. Len(res'.body.logs) :
                  res'.body.logs[j] = Satisfying(query)[i]
     /\ \A query \in SessionSearches :
          (GetSearch(query) /\ "q" \in DOMAIN query) =>
            \A i \in 1 .. Len(Matching(query)) :
              i <= MaxResults =>
                /\ res'.status = 200
                /\ \E j \in 1 .. Len(res'.body.results) :
                     res'.body.results[j] = Matching(query)[i]]_vars

\* C19: POST /logs answers 400 exactly when level or message is missing or
\* empty, and 202 otherwise.
C19_RejectsIffMissingOrEmpty ==
  [][\A log \in SessionBodies :
       PostLogs(log) =>
         IF MissingOrEmpty(log, "level") \/ MissingOrEmpty(log, "message")
         THEN res'.status = 400
         ELSE res'.status = 202]_vars

\* C20: GET /search without q, or with an empty q, answers 400 with an error
\* message and no results, and leaves the store as it was.
C20_MissingQueryRefused ==
  [][\A query \in SearchQueries :
       (GetSearch(query) /\ ("q" \notin DOMAIN query \/ query["q"] = Str(""))) =>
         /\ res'.status = 400
         /\ DOMAIN res'.body = {"error"}
         /\ res'.body.error # ""
         /\ UNCHANGED <<receivedLogs, stats>>]_vars

\* C20 witness: an empty q was refused on a store that holds records.
C20_Witness ==
  /\ res.op = "GET /search" /\ res.status = 400
  /\ "q" \in DOMAIN res.req
  /\ Len(receivedLogs) > 0

\* C22: for every store and every non-empty q, GET /search answers 200 with
\* results and total; the 400 for a missing q is the only error of a search.
C22_SearchNeverFails ==
  /\ SearchAnswered => (res.status = 200 /\ DOMAIN res.body = {"results", "total"})
  /\ res.op = "GET /search" => res.status \in {200, 400}

\* C24: a held record keeps all its fields and its place relative to the
\* other held records; an accepted POST puts its record in front and, on a
\* full store, drops the oldest one only; DELETE /logs drops all; no other
\* step changes the store, so a dropped record does not come back.
C24_RecordsStable ==
  [][IF nPosts' # nPosts
     THEN /\ Len(receivedLogs') = Min(Len(receivedLogs) + 1, 1000)
          /\ receivedLogs'[1]["id"] = res'.body.id
          /\ \A i \in 2 .. Len(receivedLogs') : receivedLogs'[i] = receivedLogs[i - 1]
     ELSE IF DeleteLogs
     THEN receivedLogs' = <<>>
     ELSE receivedLogs' = receivedLogs]_vars

\* C24 witness: an admit into the full store has dropped the oldest record
\* and kept the second oldest as the last one.
C24_Witness ==
  /\ Accepted
  /\ NumAdmitted = 1001
  /\ Len(receivedLogs) = 1000
  /\ receivedLogs[1000] = Admitted(2)

RECURSIVE SumOver(_, _)
SumOver(f, S) ==
  IF S = {} THEN 0
  ELSE LET k == CHOOSE x \in S : TRUE
       IN  f[k].v + SumOver(f, S \ {k})

\* C26: the byLevel counts of all levels add up to totalReceived.
C26_ByLevelSum ==
  /\ \A k \in DOMAIN stats.byLevel : stats.byLevel[k].t = "number"
  /\ SumOver(stats.byLevel, DOMAIN stats.byLevel) = stats.totalReceived

\* C26 on the stores that never admitted a level named like a method of
\* Object.prototype.
ByLevelSumWithoutInheritedNames ==
  (\A k \in DOMAIN stats.byLevel : k \notin ObjectPrototypeMethods) => C26_ByLevelSum

\* C23: the record stored for a document has the fields of the document
\* other than id and received_at with the values submitted, and as id and
\* received_at the values the server assigns and reports, whether or not the
\* document has an id or a received_at of its own.
C23_FieldsKeptServerFieldsWin ==
  [][\A log \in SessionBodies :
       (PostLogs(log) /\ nPosts' = nPosts + 1) =>
         /\ DOMAIN receivedLogs'[1] = DOMAIN log \cup {"id", "received_at"}
         /\ \A k \in DOMAIN log \ {"id", "received_at"} : receivedLogs'[1][k] = log[k]
         /\ receivedLogs'[1]["id"] \in {RandomId(draw) : draw \in Draws}
         /\ receivedLogs'[1]["id"] = res'.body.id
         /\ receivedLogs'[1]["received_at"] = ToISOString(now)
         /\ receivedLogs'[1]["received_at"] = res'.body.received_at]_vars

\* C23 witness: the document with an id of its own is stored under the id of
\* the server, its other field kept.
C23_Witness ==
  /\ Accepted
  /\ "user" \in DOMAIN receivedLogs[1] /\ receivedLogs[1]["user"] = Str("eve")
  /\ receivedLogs[1]["id"] = res.body.id
  /\ receivedLogs[1]["id"] # Str("mine")
  /\ receivedLogs[1]["received_at"] # Str("then")

\* The place of a statement in its handler.
Rank(pc) ==
  CASE pc \in {"validate", "count", "require"} -> 1
    [] pc \in {"unshift", "truncate", "filter"} -> 2
    [] pc \in {"splice", "reset"} -> 3
    [] pc = "total" -> 4
    [] pc = "level" -> 5
    [] pc = "last" -> 6
    [] pc = "respond" -> 7

\* C21: a handler that has started has its next statement ready, no other
\* request is started before it ends, its statements are run in order, it has
\* sent no response while it runs and it ends in the step that sends its one
\* response; a refused POST /logs or GET /search ends with its 400.
C21_RunsToCompletionOneResponse ==
  /\ [](running.op # "idle" =>
          /\ ENABLED (StepPost \/ StepDelete \/ StepSearch)
          /\ ~Dispatchable
          /\ running.sent = 0)
  /\ [][running.op # "idle" =>
          /\ running'.op \in {running.op, "idle"}
          /\ running'.op = running.op => Rank(running'.pc) > Rank(running.pc)
          /\ running'.op = "idle" => (res'.op = running.op /\ res'.status # 0)
          /\ running'.op # "idle" => UNCHANGED res]_vars

\* C21 witness: a search without q was refused and its handler has ended, on
\* a store that holds a record.
C21_Witness ==
  /\ res.op = "GET /search" /\ res.status = 400
  /\ running = Idle
  /\ Len(receivedLogs) > 0

\* A document with one of the four levels, a non-empty text as message and
\* the source of the generator.
WellFormed(doc) ==
  /\ {"level", "message", "source"} \subseteq DOMAIN doc
  /\ doc["level"] \in {Str("debug"), Str("info"), Str("warn"), Str("error")}
  /\ doc["message"].t = "string" /\ doc["message"].v # ""
  /\ doc["source"] = Str("payment-service")

\* Outcomes of Math.random() on both sides of every change of level and of
\* template.
SampleDraws ==
  {DrawOf(level, template, random) :
     level \in {0, 79, 80, 94, 95, 98, 99},
     template \in {0, 24, 25, 33, 34, 49, 50, 66, 67, 74, 75, 99},
     random \in {0, 99}}

\* C27: every document createRealisticLog builds has one of the four levels,
\* a non-empty message and source "payment-service"; POST /logs answers a
\* generated document that reaches it with 202, never 400, and raises
\* totalReceived and the byLevel count of its level by 1.
C27_GeneratedDocumentsAdmitted ==
  /\ [](/\ \A draw \in SampleDraws : WellFormed(CreateRealisticLog(draw, now))
        /\ \A i \in 1 .. Len(generator.calls) : WellFormed(generator.calls[i].log))
  /\ [][ApiReceives =>
          /\ res'.status = 202
          /\ stats'.totalReceived = stats.totalReceived + 1
          /\ \E l \in {"debug", "info", "warn", "error"} :
               stats'.byLevel =
                 [stats.byLevel EXCEPT ![l] = Num(stats.byLevel[l].v + 1)]]_vars

\* C27 witness: an error document of the generator was admitted.
C27_Witness ==
  /\ Accepted
  /\ receivedLogs[1]["source"] = Str("payment-service")
  /\ receivedLogs[1]["level"] = Str("error")
  /\ stats.byLevel["error"] = Num(1)

C29_SampleLogAnswers ==
  [][GetSampleLog =>
       /\ res'.status = 200
       /\ WellFormed(res'.body)
       /\ UNCHANGED <<receivedLogs, stats>>]_vars

\* The part of C29 the code satisfies: GET /sample-log changes nothing.
SampleLogChangesNothing == [][GetSampleLog => UNCHANGED <<receivedLogs, stats>>]_vars

====
